---- MODULE Spec2Model ----
(***************************************************************************)
(* A model of src/mod.ts (deno-gfm): the plain-text reduction              *)
(* (stripTokens, stripSplitBySections, strip), the rendering rules of      *)
(* Renderer (heading, code, link), the math pre-pass (mathify) and the     *)
(* sanitization call of render with its resolved allow-lists.              *)
(*                                                                         *)
(* Strings the code inspects character by character (trim, /\n{3,}/) are   *)
(* sequences of one-character strings.  Strings the code only compares or  *)
(* concatenates (slugs, hrefs, tag names) are TLA+ strings.                *)
(***************************************************************************)
EXTENDS Integers, Sequences, FiniteSets, TLC

VARIABLES
    pc,         \* which entry point is running and where it is
    tokens,     \* the token tree Marked.marked.lexer returned (mod.ts:575)
    sections,   \* the MarkdownSections[] list (mod.ts:580)
    stack,      \* the call stack of stripTokens, innermost call last
    out,        \* the value strip returned (mod.ts:594-596)
    renderer,   \* a Renderer object the caller constructed (mod.ts:46-51)
    calls,      \* how many render calls the caller has made
    call        \* the render / link call whose result the caller holds

vars == <<pc, tokens, sections, stack, out, renderer, calls, call>>

(***************************************************************************)
(* Bounds of the input sets.                                               *)
(***************************************************************************)
MaxTop == 2
MaxSections == 2
MaxChars == 4
MaxElems == 2
MaxCalls == 2

(***************************************************************************)
(* Character strings.                                                      *)
(***************************************************************************)
NL == "\n"
SP == " "

\* What String.prototype.trim removes (the model's alphabet has these two).
IsWhitespace(c) == c \in {SP, NL, "\t"}

RECURSIVE TrimStart(_)
TrimStart(s) ==
    IF s # <<>> /\ IsWhitespace(Head(s)) THEN TrimStart(Tail(s)) ELSE s

RECURSIVE TrimEnd(_)
TrimEnd(s) ==
    IF s # <<>> /\ IsWhitespace(s[Len(s)])
    THEN TrimEnd(SubSeq(s, 1, Len(s) - 1))
    ELSE s

\* s.trim()
trim(s) == TrimEnd(TrimStart(s))

\* The length of the run of newlines that starts at position i of s.
RECURSIVE NewlineRun(_, _)
NewlineRun(s, i) ==
    IF i <= Len(s) /\ s[i] = NL THEN 1 + NewlineRun(s, i + 1) ELSE 0

\* s.replace(/\n{3,}/g, "\n") from position i on: the regular expression is
\* greedy, so each maximal run of three or more newlines becomes one newline.
RECURSIVE CollapseFrom(_, _)
CollapseFrom(s, i) ==
    IF i > Len(s) THEN <<>>
    ELSE LET n == NewlineRun(s, i)
         IN  IF n >= 3
             THEN <<NL>> \o CollapseFrom(s, i + n)
             ELSE <<s[i]>> \o CollapseFrom(s, i + 1)

\* x.trim().replace(/\n{3,}/g, "\n")
Normalize(s) == CollapseFrom(trim(s), 1)

(***************************************************************************)
(* Tokens of the Marked token tree, one record shape for every type.       *)
(* hasTokens says whether the token has a `tokens` property at all.        *)
(***************************************************************************)
Token(t) ==
    [type |-> t, depth |-> 0, lang |-> "", raw |-> <<>>, text |-> <<>>,
     title |-> <<>>, hasTokens |-> FALSE, tokens |-> <<>>,
     header |-> <<>>, rows |-> <<>>, items |-> <<>>]

Leaf(t, s) == [Token(t) EXCEPT !.raw = s, !.text = s]
With(t, toks) == [Token(t) EXCEPT !.hasTokens = TRUE, !.tokens = toks]
Heading(d, toks) == [With("heading", toks) EXCEPT !.depth = d]
Code(lang, s) == [Leaf("code", s) EXCEPT !.lang = lang]
Image(title, alt) == [Leaf("image", alt) EXCEPT !.title = title]
Cell(toks) == [tokens |-> toks]
Table(hd, rws) == [Token("table") EXCEPT !.header = hd, !.rows = rws]
List(its) == [Token("list") EXCEPT !.items = its]

(***************************************************************************)
(* The token trees the lexer may hand to stripTokens.                      *)
(***************************************************************************)
HeadingLevels == {1, 2}

TextA == Leaf("text", <<"a">>)
Codespan == Leaf("codespan", <<"b">>)

\* The inline content of a heading: plain text, a code span, or text under
\* a strong, em, del or link token.
HeadingInline ==
    {<<TextA>>, <<Codespan>>, <<With("strong", <<TextA>>)>>,
     <<With("link", <<TextA>>), Image(<<"t">>, <<"i">>)>>}

Headings == {Heading(d, inl) : d \in HeadingLevels, inl \in HeadingInline}

BlockLeaves ==
    {Leaf("space", <<NL, NL>>),
     Code("", <<"c", NL, NL, NL, "c">>),
     Code("math", <<"m">>),
     Leaf("html", <<"<b>", "x", "</b>", NL>>),
     Token("hr"),
     With("paragraph", <<TextA, With("em", <<Codespan>>)>>),
     With("paragraph", <<With("del", <<TextA>>), Image(<<>>, <<"i">>)>>),
     Table(<<Cell(<<TextA>>)>>, << <<Cell(<<Codespan>>)>> >>)}

\* What a blockquote or a list item may hold.
Inner ==
    Headings \cup {Code("", <<"c">>), With("text", <<TextA>>),
                   Leaf("html", <<"x", "<br>">>)}

Containers ==
    {With("blockquote", <<x>>) : x \in Inner}
    \cup {List(<<With("list_item", <<x>>)>>) : x \in Inner}

Block == BlockLeaves \cup Headings \cup Containers

Documents == UNION {[1..n -> Block] : n \in 0..MaxTop}

(***************************************************************************)
(* stripTokens (mod.ts:427-530) as a call stack.  A frame is one call:     *)
(* its `tokens` argument, the position of the for loop, its local `index`  *)
(* (0-based, as in the code), its `header` argument, and where the loop    *)
(* body stands: "for" (before line 435), "switch" (before line 453) or     *)
(* "table" (inside lines 465-476, `work` holding what is left of them).    *)
(***************************************************************************)
Frame(toks, secs, hdr) ==
    [tokens |-> toks, pos |-> 1, index |-> Len(secs) - 1, header |-> hdr,
     at |-> "for", work |-> <<>>]

Top == stack[Len(stack)]
SetTop(f) == [stack EXCEPT ![Len(stack)] = f]
Push(stk, f) == Append(stk, f)

\* sections[index][header ? "header" : "content"] += s
AppendTo(secs, index, hdr, s) ==
    IF hdr
    THEN [secs EXCEPT ![index + 1].header = @ \o s]
    ELSE [secs EXCEPT ![index + 1].content = @ \o s]

\* The mutant of OpenSection: the new section replaces the current one.
OpenSectionReplaces(secs, index, depth) ==
    [secs EXCEPT ![index + 1] = [header |-> <<>>, depth |-> depth, content |-> <<>>]]

\* mod.ts:436-445: the current section is normalized and a new one pushed.
OpenSection(secs, index, depth) ==
    Append([secs EXCEPT ![index + 1].header = Normalize(@),
                        ![index + 1].content = Normalize(@)],
           [header |-> <<>>, depth |-> depth, content |-> <<>>])

\* sanitizeHtml(text, {allowedTags: [], allowedAttributes: {}}): every tag
\* of the text is dropped, the text between the tags is kept.
IsTag(c) == c \in {"<b>", "</b>", "<br>"}
StripMarkup(s) == SelectSeq(s, LAMBDA c : ~IsTag(c))

\* mod.ts:465-476 laid out in order: a call per cell, a " " after each
\* cell, a "\n" after the header line and after each row.
RECURSIVE CellsWork(_)
CellsWork(cells) ==
    IF cells = <<>> THEN <<>>
    ELSE <<[op |-> "call", tokens |-> Head(cells).tokens, text |-> <<>>],
           [op |-> "add", tokens |-> <<>>, text |-> <<SP>>]>>
         \o CellsWork(Tail(cells))

RowWork(cells) ==
    CellsWork(cells) \o <<[op |-> "add", tokens |-> <<>>, text |-> <<NL>>]>>

RECURSIVE RowsWork(_)
RowsWork(rows) ==
    IF rows = <<>> THEN <<>> ELSE RowWork(Head(rows)) \o RowsWork(Tail(rows))

TableWork(token) == RowWork(token.header) \o RowsWork(token.rows)

\* The text a token's case of the switch appends (mod.ts:453-528); <<>>
\* for the cases that append nothing.
Contribution(token) ==
    CASE token.type = "space" -> token.raw
      [] token.type = "code" -> IF token.lang # "math" THEN token.text ELSE <<>>
      [] token.type = "list_item" -> <<NL>>
      [] token.type = "html" -> trim(StripMarkup(token.text)) \o <<NL, NL>>
      [] token.type = "text" -> IF ~token.hasTokens THEN token.raw ELSE <<>>
      [] token.type = "image" ->
            IF token.title # <<>> THEN token.title ELSE token.text
      [] token.type = "codespan" -> token.text
      [] OTHER -> <<>>

\* mod.ts:567-588: the root section is created and the walk started.
StripSplitBySections ==
    /\ pc = "start"
    /\ sections' = <<[header |-> <<>>, depth |-> 0, content |-> <<>>]>>
    /\ stack' = <<Frame(tokens, sections', FALSE)>>
    /\ pc' = "walk"
    /\ UNCHANGED <<tokens, out, renderer, calls, call>>

\* mod.ts:434-451: the next token of the loop; a heading closes the
\* current section and opens its own; a token with `tokens` is walked.
ForToken ==
    /\ pc = "walk" /\ stack # <<>>
    /\ Top.at = "for" /\ Top.pos <= Len(Top.tokens)
    /\ LET token == Top.tokens[Top.pos]
           isHeading == token.type = "heading"
           secs == IF isHeading
                   THEN OpenSection(sections, Top.index, token.depth)
                   ELSE sections
           caller == [Top EXCEPT !.at = "switch",
                                 !.index = IF isHeading THEN @ + 1 ELSE @]
       IN  /\ sections' = secs
           /\ stack' = IF token.hasTokens
                       THEN Push(SetTop(caller), Frame(token.tokens, secs, isHeading))
                       ELSE SetTop(caller)
    /\ UNCHANGED <<pc, tokens, out, renderer, calls, call>>

\* mod.ts:453-528: the switch on the token's type.
SwitchToken ==
    /\ pc = "walk" /\ stack # <<>>
    /\ Top.at = "switch"
    /\ LET token == Top.tokens[Top.pos]
           next == [Top EXCEPT !.at = "for", !.pos = @ + 1]
       IN  CASE token.type = "table" ->
                  /\ stack' = SetTop([Top EXCEPT !.at = "table",
                                                 !.work = TableWork(token)])
                  /\ UNCHANGED sections
             [] token.type = "list" ->
                  /\ stack' = Push(SetTop(next),
                                   Frame(token.items, sections, Top.header))
                  /\ UNCHANGED sections
             [] OTHER ->
                  /\ sections' = AppendTo(sections, Top.index, Top.header,
                                          Contribution(token))
                  /\ stack' = SetTop(next)
    /\ UNCHANGED <<pc, tokens, out, renderer, calls, call>>

\* mod.ts:465-476: the next piece of a table: a cell is walked, or the
\* separator after a cell or a row is appended.
TableStep ==
    /\ pc = "walk" /\ stack # <<>>
    /\ Top.at = "table"
    /\ LET item == Head(Top.work)
           rest == Tail(Top.work)
           next == IF rest = <<>>
                   THEN [Top EXCEPT !.at = "for", !.pos = @ + 1, !.work = <<>>]
                   ELSE [Top EXCEPT !.work = rest]
       IN  IF item.op = "call"
           THEN /\ stack' = Push(SetTop(next),
                                 Frame(item.tokens, sections, Top.header))
                /\ UNCHANGED sections
           ELSE /\ sections' = AppendTo(sections, Top.index, Top.header, item.text)
                /\ stack' = SetTop(next)
    /\ UNCHANGED <<pc, tokens, out, renderer, calls, call>>

\* mod.ts:529-530 and 587: the loop is over and the call returns; when it
\* is the outermost call, stripSplitBySections returns `sections`.
Return ==
    /\ pc = "walk" /\ stack # <<>>
    /\ Top.at = "for" /\ Top.pos > Len(Top.tokens)
    /\ stack' = SubSeq(stack, 1, Len(stack) - 1)
    /\ pc' = IF Len(stack) = 1 THEN "done" ELSE pc
    /\ UNCHANGED <<tokens, sections, out, renderer, calls, call>>

NoRenderer == [allowMath |-> FALSE, baseUrl |-> <<>>, slugger |-> <<>>]
NoCall == [op |-> "none"]

InitWalk ==
    /\ pc = "start"
    /\ tokens \in Documents
    /\ sections = <<>>
    /\ stack = <<>>
    /\ out = <<>>
    /\ renderer = NoRenderer
    /\ calls = 0
    /\ call = NoCall

NextWalk == StripSplitBySections \/ ForToken \/ SwitchToken \/ TableStep \/ Return

SpecWalk == InitWalk /\ [][NextWalk]_vars

(***************************************************************************)
(* Claims about the walk.                                                  *)
(***************************************************************************)
\* The depths of the heading tokens of a token list in document order,
\* wherever they sit: under `tokens`, in table cells, in list items.
RECURSIVE HeadingDepths(_), HeadingDepthsOf(_), HeadingDepthsCells(_), HeadingDepthsRows(_)
HeadingDepths(toks) ==
    IF toks = <<>> THEN <<>>
    ELSE HeadingDepthsOf(Head(toks)) \o HeadingDepths(Tail(toks))

HeadingDepthsOf(t) ==
    (IF t.type = "heading" THEN <<t.depth>> ELSE <<>>)
    \o (IF t.hasTokens THEN HeadingDepths(t.tokens) ELSE <<>>)
    \o HeadingDepthsCells(t.header) \o HeadingDepthsRows(t.rows)
    \o HeadingDepths(t.items)

HeadingDepthsCells(cells) ==
    IF cells = <<>> THEN <<>>
    ELSE HeadingDepths(Head(cells).tokens) \o HeadingDepthsCells(Tail(cells))

HeadingDepthsRows(rows) ==
    IF rows = <<>> THEN <<>>
    ELSE HeadingDepthsCells(Head(rows)) \o HeadingDepthsRows(Tail(rows))

SectionDepths == [i \in 1..Len(sections) |-> sections[i].depth]
ExpectedDepths == <<0>> \o HeadingDepths(tokens)

IsPrefix(s, t) == Len(s) <= Len(t) /\ SubSeq(t, 1, Len(s)) = s

\* C1: at every point of the walk the depths of the sections are a prefix of
\* <<0>> followed by the depths of the document's heading tokens in document
\* order, and when stripSplitBySections returns they are all of it: element 0
\* is the root section of depth 0, then one section per heading token,
\* wherever it sits in the tree, so the length is 1 + the number of headings.
C1_SectionPerHeading ==
    /\ pc = "walk" => IsPrefix(SectionDepths, ExpectedDepths)
    /\ pc = "done" => SectionDepths = ExpectedDepths

\* C1's case: a returned list with a section for a heading that sat inside
\* a container token and a section for a later top-level heading.
C1_Witness ==
    /\ pc = "done"
    /\ Len(sections) = 3
    /\ Len(tokens) = 2
    /\ tokens[1].type \in {"blockquote", "list"}
    /\ tokens[2].type = "heading"
    /\ sections[2].depth # sections[3].depth

\* Whether s has a run of three or more newlines.
HasRun3(s) == \E i \in 1..Len(s) : NewlineRun(s, i) >= 3

\* Whether a field is as trim().replace(/\n{3,}/g, "\n") leaves it.
IsNormalized(s) ==
    /\ s # <<>> => ~IsWhitespace(s[1]) /\ ~IsWhitespace(s[Len(s)])
    /\ ~HasRun3(s)

\* C9: every section of the list stripSplitBySections returns, the last one
\* and the root section of a heading-less document included, has a header
\* and a content without leading or trailing whitespace and without a run of
\* three or more newlines.
C9_EverySectionNormalized ==
    pc = "done" =>
        \A i \in 1..Len(sections) :
            IsNormalized(sections[i].header) /\ IsNormalized(sections[i].content)

\* Whether the call on top of the stack runs inside a heading token: some
\* caller below it stands at a heading whose `tokens` are being walked.
InsideHeading ==
    \E k \in 1..(Len(stack) - 1) :
        /\ stack[k].at = "switch"
        /\ stack[k].tokens[stack[k].pos].type = "heading"

\* C8: while the walk is inside a heading token, at any nesting depth, a
\* step appends only to the header of the section that heading opened (the
\* last one): no content field changes and no earlier header changes.
C8_HeaderModeInsideHeading ==
    [][(pc = "walk" /\ InsideHeading) =>
          /\ Len(sections') = Len(sections)
          /\ \A i \in 1..Len(sections) :
                /\ sections'[i].content = sections[i].content
                /\ i < Len(sections) => sections'[i].header = sections[i].header]_vars

\* C10: a step of the walk changes no section but the one that is last in
\* the list at that moment (which it appends to, or closes on a heading);
\* every earlier section is left as it was.
C10_OnlyLastSectionChanges ==
    [][pc = "walk" =>
          \A i \in 1..(Len(sections) - 1) : sections'[i] = sections[i]]_vars

(***************************************************************************)
(* strip (mod.ts:593-597) over any list of sections.                       *)
(***************************************************************************)
Alphabet == {"a", SP, NL}

Strs(n) == UNION {[1..k -> Alphabet] : k \in 0..n}

\* The ways to cut a string of length len into the 2k fields of k sections.
Cuts(k, len) ==
    {c \in [1..(2 * k - 1) -> 0..len] :
        \A i \in 1..(2 * k - 2) : c[i] <= c[i + 1]}

Field(s, c, n, j) ==
    SubSeq(s, (IF j = 1 THEN 0 ELSE c[j - 1]) + 1, IF j = n THEN Len(s) ELSE c[j])

\* The k sections whose headers and contents are, in order, the pieces of s.
SectionsOf(s, c, k) ==
    [i \in 1..k |->
        [header |-> Field(s, c, 2 * k, 2 * i - 1),
         depth |-> IF i = 1 THEN 0 ELSE 1,
         content |-> Field(s, c, 2 * k, 2 * i)]]

\* mod.ts:595: section.header + "\n\n" + section.content
SectionText(section) == section.header \o <<NL, NL>> \o section.content

\* texts.join("\n\n")
RECURSIVE Join(_)
Join(texts) ==
    IF texts = <<>> THEN <<>>
    ELSE IF Len(texts) = 1 THEN Head(texts)
    ELSE Head(texts) \o <<NL, NL>> \o Join(Tail(texts))

\* The mutant of strip: the join is not trimmed.
stripUntrimmed(secs) ==
    CollapseFrom(Join([i \in 1..Len(secs) |-> SectionText(secs[i])]), 1) \o <<NL>>

\* mod.ts:594-596
strip(secs) ==
    CollapseFrom(trim(Join([i \in 1..Len(secs) |-> SectionText(secs[i])])), 1)
    \o <<NL>>

\* strip applied to the list stripSplitBySections returned.
Strip ==
    /\ pc = "sections"
    /\ out' = strip(sections)
    /\ pc' = "stripped"
    /\ UNCHANGED <<tokens, sections, stack, renderer, calls, call>>

InitStrip ==
    /\ pc = "sections"
    /\ tokens = <<>>
    /\ \E k \in 1..MaxSections, s \in Strs(MaxChars) :
          \E c \in Cuts(k, Len(s)) : sections = SectionsOf(s, c, k)
    /\ stack = <<>>
    /\ out = <<>>
    /\ renderer = NoRenderer
    /\ calls = 0
    /\ call = NoCall

NextStrip == Strip

SpecStrip == InitStrip /\ [][NextStrip]_vars

\* C7: the string strip returns ends with a newline, the character before
\* that newline (if there is one) is no newline and no other whitespace, and
\* the string has no run of three or more newlines; for any sections.
C7_StripEndsWithOneNewline ==
    pc = "stripped" =>
        /\ out # <<>> /\ out[Len(out)] = NL
        /\ Len(out) >= 2 => ~IsWhitespace(out[Len(out) - 1])
        /\ ~HasRun3(out)

\* C7's case: two sections whose joined text ends in whitespace and holds a
\* run of three or more newlines around text that strip keeps.
C7_Witness ==
    /\ pc = "stripped"
    /\ Len(sections) = 2
    /\ sections[1].header # <<>>
    /\ sections[2].content # <<>>
    /\ IsWhitespace(sections[2].content[Len(sections[2].content)])
    /\ HasRun3(trim(Join([i \in 1..2 |-> SectionText(sections[i])])))
    /\ Len(out) >= 4

(***************************************************************************)
(* URLs and the link rule (mod.ts:129-142).  An href is a sequence of      *)
(* lexemes: <<"#", "section">>, <<"/", "path">>, <<"http://", "host">>.    *)
(***************************************************************************)
IsAbsoluteUrl(u) == u # <<>> /\ Head(u) \in {"http://", "https://"}

\* An absolute URL parses when a host follows the scheme and is well formed.
ParsesAlone(u) == IsAbsoluteUrl(u) /\ Len(u) >= 2 /\ u[2] \notin {"[", "/", "#"}

\* new URL(href, base).href: <<url>>, or <<>> when the constructor throws.
\* The base is parsed first and must be an absolute URL; an absolute href
\* replaces it (and gets the path "/" when it has none), a href starting
\* with "/" replaces the base's path, any other href is appended to the
\* base's directory (every base of the model has the path "/").
URL(href, base) ==
    IF ~ParsesAlone(base) THEN <<>>
    ELSE IF IsAbsoluteUrl(href)
         THEN IF ParsesAlone(href)
              THEN <<IF Len(href) = 2 THEN href \o <<"/">> ELSE href>>
              ELSE <<>>
    ELSE IF href # <<>> /\ Head(href) = "/"
         THEN <<SubSeq(base, 1, 2) \o href>>
    ELSE <<base \o href>>

\* A title is null (<<>>) or a string (<<s>>); `title ? a : b` takes a for
\* a string that is not empty.
Truthy(opt) == opt # <<>> /\ opt[1] # ""

TitleAttr(title) == IF Truthy(title) THEN ("title" :> title[1]) ELSE <<>>

\* The mutant of link: new URL is called outside a try block.
linkWithoutTry(r, href, title, text) ==
    IF href # <<>> /\ Head(href) = "#"
    THEN [threw |-> FALSE,
          node |-> [tag |-> "a", attrs |-> ("href" :> href) @@ TitleAttr(title),
                    text |-> text]]
    ELSE LET url == IF r.baseUrl # <<>> /\ r.baseUrl[1] # <<>>
                    THEN URL(href, r.baseUrl[1]) ELSE <<href>>
         IN  [threw |-> url = <<>>,
              node |-> [tag |-> "a",
                        attrs |-> ("href" :> IF url = <<>> THEN href ELSE url[1])
                                  @@ TitleAttr(title)
                                  @@ ("rel" :> "noopener noreferrer"),
                        text |-> text]]

\* Renderer.link (mod.ts:129-142): the anchor element it returns, and
\* whether it threw.  `r` is the Renderer (`this`).
link(r, href, title, text) ==
    IF href # <<>> /\ Head(href) = "#"
    THEN [threw |-> FALSE,
          node |-> [tag |-> "a", attrs |-> ("href" :> href) @@ TitleAttr(title),
                    text |-> text]]
    ELSE LET url == IF r.baseUrl # <<>> /\ r.baseUrl[1] # <<>>
                    THEN URL(href, r.baseUrl[1]) ELSE <<>>
             resolved == IF url # <<>> THEN url[1] ELSE href
         IN  [threw |-> FALSE,
              node |-> [tag |-> "a",
                        attrs |-> ("href" :> resolved) @@ TitleAttr(title)
                                  @@ ("rel" :> "noopener noreferrer"),
                        text |-> text]]

Hrefs ==
    {<<"#", "section">>, <<"/", "path">>, <<"http://", "example.com">>,
     <<"https://", "example.com", "/", "a">>, <<"page.html">>, <<"http://", "[">>,
     <<>>}

Titles == {<<>>, <<"">>, <<"T">>}

\* baseUrl: undefined, "", "https://host/", and a string that is no URL.
BaseUrls == {<<>>, << <<>> >>, << <<"https://", "host", "/">> >>, << <<"host">> >>}

\* A call of the link rule of the caller's Renderer.
Link ==
    /\ pc = "caller"
    /\ \E href \in Hrefs, title \in Titles, text \in {"", "x"} :
          call' = [op |-> "link", href |-> href, title |-> title, text |-> text,
                   result |-> link(renderer, href, title, text)]
    /\ pc' = "called"
    /\ UNCHANGED <<tokens, sections, stack, out, renderer, calls>>

\* The caller takes the result of the call it made.
ReturnToCaller ==
    /\ pc = "called"
    /\ call' = NoCall
    /\ pc' = "caller"
    /\ UNCHANGED <<tokens, sections, stack, out, renderer, calls>>

InitLink ==
    /\ pc = "caller"
    /\ tokens = <<>>
    /\ sections = <<>>
    /\ stack = <<>>
    /\ out = <<>>
    /\ \E b \in BaseUrls : renderer = [NoRenderer EXCEPT !.baseUrl = b]
    /\ calls = 0
    /\ call = NoCall

NextLink == Link \/ ReturnToCaller

SpecLink == InitLink /\ [][NextLink]_vars

\* C6: the link rule never fails; the anchor has a title attribute exactly
\* when the title is not empty; for an href starting with "#" it has no rel
\* and the href as given; otherwise it has rel="noopener noreferrer" and its
\* href is the href resolved against the base URL when one is configured and
\* the resolution succeeds, and the original href otherwise.
C6_LinkRule ==
    call.op = "link" =>
        LET a == call.result.node.attrs
            base == renderer.baseUrl
            url == IF base # <<>> THEN URL(call.href, base[1]) ELSE <<>>
        IN  /\ ~call.result.threw
            /\ call.result.node.tag = "a"
            /\ call.result.node.text = call.text
            /\ ("title" \in DOMAIN a) <=> (call.title \notin {<<>>, <<"">>})
            /\ "title" \in DOMAIN a => a["title"] = call.title[1]
            /\ IF call.href # <<>> /\ call.href[1] = "#"
               THEN "rel" \notin DOMAIN a /\ a["href"] = call.href
               ELSE /\ "rel" \in DOMAIN a /\ a["rel"] = "noopener noreferrer"
                    /\ a["href"] = IF url # <<>> THEN url[1] ELSE call.href

\* C6's case: a relative href with a title, resolved against a configured
\* base URL.
C6_Witness ==
    /\ call.op = "link"
    /\ renderer.baseUrl = << <<"https://", "host", "/">> >>
    /\ call.href = <<"/", "path">>
    /\ call.title = <<"T">>
    /\ call.result.node.attrs["href"] = <<"https://", "host", "/", "path">>

(***************************************************************************)
(* render (mod.ts:220-412).  A Markdown source is a sequence of elements;  *)
(* HTML is a sequence of nodes [tag, attrs, text], a text node having the  *)
(* tag "#text".                                                            *)
(***************************************************************************)
Elem(kind, text) == [kind |-> kind, level |-> 0, text |-> text, tag |-> "", lang |-> <<>>]

HeadingElem(level, raw) == [Elem("heading", raw) EXCEPT !.level = level]
HtmlElem(tag) == [Elem("html", "x") EXCEPT !.tag = tag]
CodeElem(lang, code) == [Elem("code", code) EXCEPT !.lang = lang]

\* Formulas katex.renderToString throws a ParseError on.
BadFormula == "\\invalidcmd"
KatexThrows(formula) == formula = BadFormula

MdElems ==
    {HeadingElem(1, "Foo"), HeadingElem(2, "Foo"),
     HtmlElem("script"), HtmlElem("style"), HtmlElem("iframe"), HtmlElem("b"),
     Elem("blockmath", "x^2"), Elem("blockmath", BadFormula),
     Elem("inlinemath", BadFormula),
     CodeElem(<<"Math, ignore">>, BadFormula), CodeElem(<<"js">>, "let x"),
     Elem("link", "x")}

Markdowns == UNION {[1..n -> MdElems] : n \in 0..MaxElems}

Node(tag, attrs, text) == [tag |-> tag, attrs |-> attrs, text |-> text]
TextNode(text) == Node("#text", <<>>, text)

\* The HTML katex.renderToString returns for a formula it accepts.
KatexHtml(formula) ==
    <<Node("span", <<>>, ""), Node("math", <<>>, ""), Node("semantics", <<>>, ""),
      Node("annotation", <<>>, formula)>>

\* mod.ts:149-173: each `$$ f $$` and ` $f$` match is replaced by katex's
\* HTML, or kept as it is when katex throws.
mathify(markdown) ==
    [i \in 1..Len(markdown) |->
        IF markdown[i].kind \in {"blockmath", "inlinemath"}
           /\ ~KatexThrows(markdown[i].text)
        THEN [markdown[i] EXCEPT !.kind = "katex"]
        ELSE markdown[i]]

\* github-slugger's normalization of a heading's raw text, on the model's
\* headings: lower case.
Slugify(raw) == CASE raw = "Foo" -> "foo" [] OTHER -> raw

\* github-slugger's slug(): the first of slug, slug-1, slug-2, ... the
\* registry has not handed out; the registry records it.
RECURSIVE SlugFrom(_, _, _)
SlugFrom(occurrences, original, result) ==
    IF result \in DOMAIN occurrences
    THEN LET occ == [occurrences EXCEPT ![original] = @ + 1]
         IN  SlugFrom(occ, original, original \o "-" \o ToString(occ[original]))
    ELSE [slug |-> result, occurrences |-> occurrences @@ (result :> 0)]

\* A Renderer as its constructor leaves it (mod.ts:46-51).
NewRenderer(options) ==
    [allowMath |-> options.allowMath, baseUrl |-> options.baseUrl, slugger |-> <<>>]

\* Renderer.heading (mod.ts:65-72): the slug comes from this.#slugger.
heading(r, text, level, raw) ==
    LET s == SlugFrom(r.slugger, Slugify(raw), Slugify(raw))
    IN  [threw |-> FALSE,
         renderer |-> [r EXCEPT !.slugger = s.occurrences],
         html |-> <<Node("h" \o ToString(level), ("id" :> s.slug), ""),
                    Node("a", ("href" :> <<"#", s.slug>>), ""),
                    Node("svg", <<>>, ""), Node("path", <<>>, ""),
                    TextNode(text)>>]

\* language?.split(",")?.[0].toLocaleLowerCase() on the model's languages.
NormalizeLanguage(language) ==
    IF language = <<>> THEN <<>>
    ELSE CASE language[1] = "Math, ignore" -> <<"math">>
           [] OTHER -> language

\* The languages Prism.languages has a grammar for.
PrismLanguages == {"markup", "html", "css", "clike", "javascript", "js"}

\* Renderer.code (mod.ts:101-120).
code(r, text, lang) ==
    LET language == NormalizeLanguage(lang)
    IN  IF language = <<"math">> /\ r.allowMath
        THEN IF KatexThrows(text)
             THEN [threw |-> TRUE, renderer |-> r, html |-> <<>>]
             ELSE [threw |-> FALSE, renderer |-> r, html |-> KatexHtml(text)]
        ELSE IF language # <<>> /\ language[1] \in PrismLanguages
        THEN [threw |-> FALSE, renderer |-> r,
              html |-> <<Node("div", <<>>, ""), Node("pre", <<>>, ""),
                         Node("span", <<>>, ""), TextNode(text)>>]
        ELSE [threw |-> FALSE, renderer |-> r,
              html |-> <<Node("pre", <<>>, ""), Node("code", <<>>, ""), TextNode(text)>>]

\* What Marked.marked.parse does with one element of the source: raw HTML
\* and katex's HTML pass through, a heading, a fenced block and a link go
\* to the renderer's rules, anything else is a paragraph of text.  With
\* parseInline (inline = TRUE) a heading line or a fence is inline text.
RenderElem(e, r, inline) ==
    CASE e.kind = "heading" /\ ~inline -> heading(r, e.text, e.level, e.text)
      [] e.kind = "code" /\ ~inline -> code(r, e.text, e.lang)
      [] e.kind = "link" ->
            [threw |-> FALSE, renderer |-> r,
             html |-> <<link(r, <<"/", "path">>, <<>>, e.text).node>>]
      [] e.kind = "html" ->
            [threw |-> FALSE, renderer |-> r, html |-> <<Node(e.tag, <<>>, e.text)>>]
      [] e.kind = "katex" ->
            [threw |-> FALSE, renderer |-> r, html |-> KatexHtml(e.text)]
      [] OTHER ->
            [threw |-> FALSE, renderer |-> r,
             html |-> <<Node("p", <<>>, ""), TextNode(e.text)>>]

\* Marked.marked.parse / parseInline (mod.ts:231-234): the elements are
\* rendered in document order by the one renderer; an exception of a rule
\* ends the parse and is rethrown.
RECURSIVE ParseFrom(_, _, _, _)
ParseFrom(markdown, i, r, inline) ==
    IF i > Len(markdown) THEN [threw |-> FALSE, renderer |-> r, html |-> <<>>]
    ELSE LET one == RenderElem(markdown[i], r, inline)
         IN  IF one.threw THEN one
             ELSE LET rest == ParseFrom(markdown, i + 1, one.renderer, inline)
                  IN  [rest EXCEPT !.html = IF rest.threw THEN <<>> ELSE one.html \o @]

\* getOpts (mod.ts:178-187): the caller's renderer, or a new one.
getOpts(opts, custom) ==
    [baseUrl |-> opts.baseUrl,
     renderer |-> IF opts.renderer THEN custom ELSE NewRenderer(opts)]

(***************************************************************************)
(* The allow-lists render resolves (mod.ts:241-411) and sanitizeHtml.      *)
(***************************************************************************)
\* sanitizeHtml.defaults.allowedTags
SanitizeDefaultTags ==
    {"address", "article", "aside", "footer", "header", "h1", "h2", "h3", "h4",
     "h5", "h6", "hgroup", "main", "nav", "section", "blockquote", "dd", "div",
     "dl", "dt", "figcaption", "figure", "hr", "li", "ol", "p", "pre", "ul",
     "a", "abbr", "b", "bdi", "bdo", "br", "cite", "code", "data", "dfn", "em",
     "i", "kbd", "mark", "q", "rb", "rp", "rt", "rtc", "ruby", "s", "samp",
     "small", "span", "strong", "sub", "sup", "time", "u", "var", "wbr",
     "caption", "col", "colgroup", "table", "tbody", "td", "tfoot", "th",
     "thead", "tr"}

MathTags ==
    {"math", "maction", "annotation", "annotation-xml", "menclose", "merror",
     "mfenced", "mfrac", "mi", "mmultiscripts", "mn", "mo", "mover", "mpadded",
     "mphantom", "mprescripts", "mroot", "mrow", "ms", "semantics", "mspace",
     "msqrt", "mstyle", "msub", "msup", "msubsup", "mtable", "mtd", "mtext",
     "mtr"}

\* The mutant of DefaultAllowedTags: iframe is allowed whatever the option.
DefaultAllowedTagsIframeAlways(opts) ==
    SanitizeDefaultTags
    \cup {"img", "video", "svg", "path", "circle", "figure", "figcaption",
          "del", "details", "summary", "input"}
    \cup {"iframe"}
    \cup (IF opts.allowMath THEN MathTags ELSE {})

\* defaultAllowedTags (mod.ts:241-290)
DefaultAllowedTags(opts) ==
    SanitizeDefaultTags
    \cup {"img", "video", "svg", "path", "circle", "figure", "figcaption",
          "del", "details", "summary", "input"}
    \cup (IF opts.allowIframes THEN {"iframe"} ELSE {})
    \cup (IF opts.allowMath THEN MathTags ELSE {})

\* KATEX_CLASSES of ./style.ts (mod.ts:12): the classes katex's HTML uses.
KATEX_CLASSES == {"katex", "katex-display", "katex-html", "katex-mathml"}

\* defaultAllowedClasses (mod.ts:304-342)
DefaultAllowedClasses(opts) ==
    [div |-> {"highlight", "highlight-source-*", "notranslate", "markdown-alert",
              "markdown-alert-*"},
     span |-> {"token", "keyword", "operator", "number", "boolean", "function",
               "string", "comment", "class-name", "regex", "regex-delimiter",
               "tag", "attr-name", "punctuation", "script-punctuation", "script",
               "plain-text", "property", "prefix", "line", "deleted", "inserted"}
              \cup (IF opts.allowMath THEN KATEX_CLASSES ELSE {}),
     a |-> {"anchor"},
     p |-> {"markdown-alert-title"},
     svg |-> {"octicon", "octicon-alert", "octicon-link"},
     h2 |-> {"sr-only"},
     section |-> {"footnotes"}]

\* defaultAllowedAttributes (mod.ts:344-394); img and a replace the entries
\* of sanitizeHtml.defaults.allowedAttributes, which has no other key.
DefaultAllowedAttributes(opts) ==
    [img |-> {"src", "alt", "height", "width", "align", "title"},
     video |-> {"src", "alt", "height", "width", "autoplay", "muted", "loop",
                "playsinline", "poster", "controls", "title"},
     a |-> {"id", "aria-hidden", "href", "tabindex", "rel", "target", "title",
            "data-footnote-ref", "data-footnote-backref", "aria-label",
            "aria-describedby"},
     svg |-> {"viewBox", "width", "height", "aria-hidden", "background"},
     path |-> {"fill-rule", "d"},
     circle |-> {"cx", "cy", "r", "stroke", "stroke-width", "fill", "alpha"},
     span |-> IF opts.allowMath THEN {"aria-hidden", "style"} ELSE {},
     h1 |-> {"id"}, h2 |-> {"id"}, h3 |-> {"id"}, h4 |-> {"id"}, h5 |-> {"id"},
     h6 |-> {"id"}, li |-> {"id"},
     td |-> {"colspan", "rowspan", "align", "width"},
     iframe |-> {"src", "width", "height"},
     math |-> {"xmlns"},
     annotation |-> {"encoding"},
     details |-> {"open"},
     section |-> {"data-footnotes"},
     input |-> {"checked", "disabled", "type=checkbox"}]

\* mergeAttributes (mod.ts:415-424): per tag, the defaults followed by the
\* customs.
mergeAttributes(defaults, customs) ==
    [tag \in DOMAIN defaults \cup DOMAIN customs |->
        (IF tag \in DOMAIN defaults THEN defaults[tag] ELSE {})
        \cup (IF tag \in DOMAIN customs THEN customs[tag] ELSE {})]

\* { ...defaultAllowedClasses, ...opts.allowedClasses } (mod.ts:406): a key
\* of the second object takes the place of the same key of the first.
SpreadClasses(defaults, customs) ==
    [tag \in DOMAIN defaults \cup DOMAIN customs |->
        IF tag \in DOMAIN customs THEN customs[tag] ELSE defaults[tag]]

\* The options render passes to sanitizeHtml (mod.ts:396-411).
SanitizeOptions(opts) ==
    [allowedTags |-> DefaultAllowedTags(opts) \cup opts.allowedTags,
     allowedAttributes |->
        mergeAttributes(DefaultAllowedAttributes(opts), opts.allowedAttributes),
     allowedClasses |->
        SpreadClasses(DefaultAllowedClasses(opts), opts.allowedClasses)]

\* The tags sanitizeHtml drops together with their text.
NonTextTags == {"script", "style", "textarea", "option"}

\* sanitizeHtml on one node: a text node is kept; an element whose tag is
\* allowed keeps the attributes allowed for its tag; any other element is
\* dropped, its text staying unless the tag is one of NonTextTags.
SanitizeNode(n, options) ==
    IF n.tag = "#text" THEN <<n>>
    ELSE IF n.tag \in options.allowedTags
    THEN LET allowed == IF n.tag \in DOMAIN options.allowedAttributes
                        THEN options.allowedAttributes[n.tag] ELSE {}
         IN  <<[n EXCEPT !.attrs = [a \in DOMAIN n.attrs \cap allowed |-> n.attrs[a]]]>>
    ELSE IF n.tag \in NonTextTags \/ n.text = "" THEN <<>>
    ELSE <<TextNode(n.text)>>

RECURSIVE sanitizeHtml(_, _)
sanitizeHtml(html, options) ==
    IF html = <<>> THEN <<>>
    ELSE SanitizeNode(Head(html), options) \o sanitizeHtml(Tail(html), options)

\* What a caller adds to the allow-lists: nothing; a tag, a class for a tag
\* with default classes and an attribute for a tag with default attributes;
\* or tags the defaults exclude, with a class and an attribute for tags the
\* defaults have no entry for.
Extensions ==
    {[allowedTags |-> {}, allowedClasses |-> <<>>, allowedAttributes |-> <<>>],
     [allowedTags |-> {"marquee"}, allowedClasses |-> ("div" :> {"x"}),
      allowedAttributes |-> ("a" :> {"data-x"})],
     [allowedTags |-> {"script", "iframe"}, allowedClasses |-> ("em" :> {"y"}),
      allowedAttributes |-> ("q" :> {"cite"})]}

Options(allowMath, allowIframes, disable, rend, inline, baseUrl, ext) ==
    [allowMath |-> allowMath, allowIframes |-> allowIframes,
     disableHtmlSanitization |-> disable, renderer |-> rend, inline |-> inline,
     baseUrl |-> baseUrl, allowedTags |-> ext.allowedTags,
     allowedClasses |-> ext.allowedClasses,
     allowedAttributes |-> ext.allowedAttributes]

NoExtension == [allowedTags |-> {}, allowedClasses |-> <<>>, allowedAttributes |-> <<>>]

\* The options of the calls: with sanitization, every combination of
\* allowMath, allowIframes, the caller's own renderer and the extensions;
\* without sanitization, of allowMath and the caller's own renderer; inline
\* mode and a base URL with the other options at their defaults.
RenderOptionsSet ==
    {Options(m, f, FALSE, r, FALSE, <<>>, x) :
        m \in BOOLEAN, f \in BOOLEAN, r \in BOOLEAN, x \in Extensions}
    \cup {Options(m, FALSE, TRUE, r, FALSE, <<>>, NoExtension) :
            m \in BOOLEAN, r \in BOOLEAN}
    \cup {Options(m, FALSE, FALSE, FALSE, TRUE, <<>>, NoExtension) : m \in BOOLEAN}
    \cup {Options(FALSE, FALSE, FALSE, FALSE, FALSE,
                  << <<"https://", "host", "/">> >>, NoExtension)}

\* render (mod.ts:220-412), called by a caller who has the Renderer
\* `renderer` at hand: the math pre-pass, the parse with the renderer getOpts
\* chose, and, unless disabled, sanitizeHtml with the resolved allow-lists.
\* The call record holds what render returned or that it threw, and the
\* options it gave sanitizeHtml (<<>> when it did not call it).
Render ==
    /\ pc = "caller"
    /\ calls < MaxCalls
    /\ \E opts \in RenderOptionsSet :
       \E options \in {SanitizeOptions(opts)} :
       \E markdown \in Markdowns :
       \E parsed \in {ParseFrom(IF opts.allowMath THEN mathify(markdown) ELSE markdown,
                                1, getOpts(opts, renderer).renderer, opts.inline)} :
          /\ call' = [op |-> "render", markdown |-> markdown, opts |-> opts,
                      threw |-> parsed.threw,
                      html |-> IF parsed.threw THEN <<>>
                               ELSE IF opts.disableHtmlSanitization THEN parsed.html
                               ELSE sanitizeHtml(parsed.html, options),
                      options |-> IF parsed.threw \/ opts.disableHtmlSanitization
                                  THEN <<>> ELSE <<options>>]
          /\ renderer' = IF opts.renderer THEN parsed.renderer ELSE renderer
    /\ calls' = calls + 1
    /\ pc' = "called"
    /\ UNCHANGED <<tokens, sections, stack, out>>

\* The caller constructed one Renderer of its own:
\* new Renderer({ allowMath: true }).
InitRender ==
    /\ pc = "caller"
    /\ tokens = <<>>
    /\ sections = <<>>
    /\ stack = <<>>
    /\ out = <<>>
    /\ renderer = NewRenderer([allowMath |-> TRUE, baseUrl |-> <<>>])
    /\ calls = 0
    /\ call = NoCall

NextRender == Render \/ ReturnToCaller

SpecRender == InitRender /\ [][NextRender]_vars

(***************************************************************************)
(* Claims about render.                                                    *)
(***************************************************************************)
Sanitized == call.op = "render" /\ ~call.threw /\ call.options # <<>>

\* C2: when sanitization is not disabled, the output of render has no
\* script and no style tag unless the caller's allowedTags names it, and no
\* iframe tag unless allowIframes is set or allowedTags names it.
C2_NoDisallowedTags ==
    (call.op = "render" /\ ~call.threw /\ ~call.opts.disableHtmlSanitization) =>
        \A i \in 1..Len(call.html) :
            LET tag == call.html[i].tag
            IN  /\ tag \in {"script", "style"} => tag \in call.opts.allowedTags
                /\ tag = "iframe" =>
                      call.opts.allowIframes \/ tag \in call.opts.allowedTags

\* C2's case: a source with raw <script> and <iframe> elements, rendered
\* with sanitization, without allowIframes and without extra tags; the
\* script is gone with its text and the iframe's text alone is left.
C2_Witness ==
    /\ Sanitized
    /\ call.markdown = <<HtmlElem("script"), HtmlElem("iframe")>>
    /\ ~call.opts.allowIframes
    /\ call.opts.allowedTags = {}
    /\ call.html = <<TextNode("x")>>

Covers(resolved, defaults, customs) ==
    \A tag \in DOMAIN defaults \cup DOMAIN customs :
        /\ tag \in DOMAIN resolved
        /\ tag \in DOMAIN defaults => defaults[tag] \subseteq resolved[tag]
        /\ tag \in DOMAIN customs => customs[tag] \subseteq resolved[tag]

\* C3: the allow-lists render resolves contain every default entry and
\* every entry the caller supplied: the tags, and for every tag its
\* attributes and its classes.
C3_AllowListsAreUnions ==
    Sanitized =>
        LET resolved == call.options[1]
            opts == call.opts
        IN  /\ DefaultAllowedTags(opts) \cup opts.allowedTags
                  \subseteq resolved.allowedTags
            /\ Covers(resolved.allowedAttributes, DefaultAllowedAttributes(opts),
                      opts.allowedAttributes)
            /\ Covers(resolved.allowedClasses, DefaultAllowedClasses(opts),
                      opts.allowedClasses)

HeadingTags == {"h1", "h2", "h3", "h4", "h5", "h6"}

\* The id attributes of the heading elements of an HTML, in order.
HeadingIds(html) ==
    LET hs == SelectSeq(html, LAMBDA n : n.tag \in HeadingTags)
    IN  [i \in 1..Len(hs) |-> hs[i].attrs["id"]]

\* The ids a registry that starts empty gives the headings of a source.
RECURSIVE FreshIdsFrom(_, _, _)
FreshIdsFrom(markdown, i, occurrences) ==
    IF i > Len(markdown) THEN <<>>
    ELSE IF markdown[i].kind # "heading"
    THEN FreshIdsFrom(markdown, i + 1, occurrences)
    ELSE LET s == SlugFrom(occurrences, Slugify(markdown[i].text),
                           Slugify(markdown[i].text))
         IN  <<s.slug>> \o FreshIdsFrom(markdown, i + 1, s.occurrences)

\* C4: the heading ids of a render call are those a slug registry that is
\* empty at the start of the call gives the call's Markdown, whatever calls
\* came before and whatever options object or renderer they shared.
C4_FreshSlugRegistryPerCall ==
    (call.op = "render" /\ ~call.threw /\ ~call.opts.inline) =>
        HeadingIds(call.html) = FreshIdsFrom(call.markdown, 1, <<>>)

IsMathElem(e) ==
    \/ e.kind \in {"blockmath", "inlinemath"}
    \/ e.kind = "code" /\ NormalizeLanguage(e.lang) = <<"math">>

\* C5: with allowMath enabled render returns a result, and the source text
\* of every formula the math collaborator fails on (in a `$$ ... $$` block,
\* an inline `$...$`, or a fenced block of language "math") is in the output.
C5_MathFailureNeverRaised ==
    (call.op = "render" /\ call.opts.allowMath) =>
        /\ ~call.threw
        /\ \A i \in 1..Len(call.markdown) :
              (IsMathElem(call.markdown[i]) /\ KatexThrows(call.markdown[i].text)) =>
                  \E j \in 1..Len(call.html) :
                      call.html[j].text = call.markdown[i].text

====
